---- MODULE Spec2Model ----
(***************************************************************************)
(* cg3-stream-parser: from_string / to_cg3_string of src/lib.rs.           *)
(*                                                                         *)
(* Text is a sequence of one-character strings.  A Cohort is a record      *)
(* [word_form, tags, readings], a Reading a record [base_form, tags]; tags *)
(* are sequences of texts.                                                 *)
(***************************************************************************)
EXTENDS Integers, Sequences, FiniteSets, TLC

\* ------------------------------------------------------------ characters
DQ  == "\""
LT  == "<"
GT  == ">"
SP  == " "
TAB == "\t"
CR  == "\r"
LF  == "\n"
LA  == "a"
LB  == "b"
COLON == ":"

\* The characters of the model that the regex class \s matches.
WhiteSpace == {SP, TAB, CR, LF}

IsSpace(c) == c \in WhiteSpace

\* ------------------------------------------------------------ text helpers
Drop(s, n) == SubSeq(s, n + 1, Len(s))

Take(s, n) == SubSeq(s, 1, n)

\* s has t at position i (1-based).
HasAt(s, i, t) ==
    /\ i >= 1
    /\ i + Len(t) - 1 <= Len(s)
    /\ SubSeq(s, i, i + Len(t) - 1) = t

Contains(s, t) == \E i \in 1..Len(s) : HasAt(s, i, t)

\* s without its leading whitespace.
RECURSIVE TrimStart(_)
TrimStart(s) == IF s # <<>> /\ IsSpace(s[1]) THEN TrimStart(Tail(s)) ELSE s

\* ------------------------------------------------------------ str::lines
\* The first index of LF in s, or 0.
FirstLF(s) ==
    IF \E i \in 1..Len(s) : s[i] = LF
    THEN CHOOSE i \in 1..Len(s) : s[i] = LF /\ \A j \in 1..(i - 1) : s[j] # LF
    ELSE 0

\* str::lines ends a line at LF or at CR LF: of a line that LF terminated, one
\* final CR belongs to the terminator.  A CR before the end of the text stays.
StripCR(l) == IF Len(l) > 0 /\ l[Len(l)] = CR THEN Take(l, Len(l) - 1) ELSE l

RECURSIVE StrLines(_)
StrLines(s) ==
    IF s = <<>> THEN <<>>
    ELSE LET i == FirstLF(s) IN
         IF i = 0 THEN <<s>>
         ELSE <<StripCR(Take(s, i - 1))>> \o StrLines(Drop(s, i))

\* ------------------------------------------------------------ the regexes
NoMatch == [matched |-> FALSE]

\* Captures: group 1 always takes part in a match; group 2 may not (has2).
Captures(g1, has2, g2) == [matched |-> TRUE, g1 |-> g1, has2 |-> has2, g2 |-> g2]

\* `(?:\s(.*)?)?$` matches at position p (the first position after the closing
\* delimiter): end of text, or one \s and then any text without LF.
TailMatches(line, p) ==
    \/ p = Len(line) + 1
    \/ /\ p <= Len(line)
       /\ IsSpace(line[p])
       /\ \A k \in (p + 1)..Len(line) : line[k] # LF

\* LazyCapture with a greedy group 1, (.*) for (.*?): the longest group 1.
LazyCaptureGreedy(line, from, close) ==
    LET Ends == {e \in (from - 1)..Len(line) :
                    /\ \A k \in from..e : line[k] # LF
                    /\ HasAt(line, e + 1, close)
                    /\ TailMatches(line, e + 1 + Len(close))}
    IN  IF Ends = {} THEN NoMatch
        ELSE LET e == CHOOSE x \in Ends : \A y \in Ends : x >= y
                 p == e + 1 + Len(close)
             IN  Captures(SubSeq(line, from, e),
                          p <= Len(line),
                          SubSeq(line, p + 1, Len(line)))

\* LazyCapture with \s+ for \s before group 2: group 2 starts after the whole
\* whitespace run.
LazyCaptureWholeRun(line, from, close) ==
    LET Ends == {e \in (from - 1)..Len(line) :
                    /\ \A k \in from..e : line[k] # LF
                    /\ HasAt(line, e + 1, close)
                    /\ TailMatches(line, e + 1 + Len(close))}
    IN  IF Ends = {} THEN NoMatch
        ELSE LET e == CHOOSE x \in Ends : \A y \in Ends : x <= y
                 p == e + 1 + Len(close)
             IN  Captures(SubSeq(line, from, e),
                          p <= Len(line),
                          TrimStart(SubSeq(line, p, Len(line))))

\* The captures of a lazy group 1 that starts at position from and is closed by
\* the delimiter close: the shortest group 1 after which close and the tail match.
LazyCapture(line, from, close) ==
    LET Ends == {e \in (from - 1)..Len(line) :
                    /\ \A k \in from..e : line[k] # LF
                    /\ HasAt(line, e + 1, close)
                    /\ TailMatches(line, e + 1 + Len(close))}
    IN  IF Ends = {} THEN NoMatch
        ELSE LET e == CHOOSE x \in Ends : \A y \in Ends : x <= y
                 p == e + 1 + Len(close)
             IN  Captures(SubSeq(line, from, e),
                          p <= Len(line),
                          SubSeq(line, p + 1, Len(line)))

\* RE_WORD_FORM: ^"<(.*?)>"(?:\s(.*)?)?$
ReWordForm(line) ==
    IF HasAt(line, 1, <<DQ, LT>>) THEN LazyCapture(line, 3, <<GT, DQ>>) ELSE NoMatch

\* The length of the longest prefix of whitespace.
LeadingSpace(line) ==
    CHOOSE n \in 0..Len(line) :
        /\ \A k \in 1..n : IsSpace(line[k])
        /\ n < Len(line) => ~IsSpace(line[n + 1])

\* RE_BASE_FORM: ^\s+"(.*?)"(?:\s(.*)?)?$
ReBaseForm(line) ==
    LET n == LeadingSpace(line) IN
    IF n >= 1 /\ HasAt(line, n + 1, <<DQ>>)
    THEN LazyCapture(line, n + 2, <<DQ>>)
    ELSE NoMatch

\* ------------------------------------------------------------ tags
\* str::split(" "): the pieces between single spaces, empty pieces included.
RECURSIVE SplitSpace(_)
SplitSpace(s) ==
    IF \E i \in 1..Len(s) : s[i] = SP
    THEN LET i == CHOOSE x \in 1..Len(s) :
                      s[x] = SP /\ \A y \in 1..(x - 1) : s[y] # SP
         IN  <<Take(s, i - 1)>> \o SplitSpace(Drop(s, i))
    ELSE <<s>>

\* TagsOf without the filter of the empty tag string.
TagsOfUnfiltered(cap) ==
    IF cap.has2 THEN SplitSpace(cap.g2) ELSE <<>>

\* captures.get(2).filter(|x| x != "").map(split(" ")).unwrap_or(vec![])
TagsOf(cap) ==
    IF cap.has2 /\ cap.g2 # <<>> THEN SplitSpace(cap.g2) ELSE <<>>

\* Cohort::from_captures
CohortFromCaptures(cap) ==
    [word_form |-> cap.g1, tags |-> TagsOf(cap), readings |-> <<>>]

\* Reading::from_captures
ReadingFromCaptures(cap) ==
    [base_form |-> cap.g1, tags |-> TagsOf(cap)]

\* ------------------------------------------------------------ from_string
\* FoldLine where a reading line before any cohort header makes a cohort of its own.
FoldLineKeepsOrphan(state, line) ==
    LET w == ReWordForm(line)
        b == ReBaseForm(line)
    IN  IF w.matched THEN Append(state, CohortFromCaptures(w))
        ELSE IF ~b.matched THEN state
        ELSE IF state = <<>>
        THEN <<[word_form |-> <<>>, tags |-> <<>>,
                readings |-> <<ReadingFromCaptures(b)>>]>>
        ELSE [state EXCEPT ![Len(state)].readings = Append(@, ReadingFromCaptures(b))]

\* FoldLine where a line that matches neither pattern is pushed as an empty reading.
FoldLineNoiseAsReading(state, line) ==
    LET w == ReWordForm(line) IN
    IF w.matched THEN Append(state, CohortFromCaptures(w))
    ELSE IF state = <<>> THEN state
    ELSE LET b == ReBaseForm(line) IN
         [state EXCEPT ![Len(state)].readings =
             Append(@, IF b.matched THEN ReadingFromCaptures(b)
                       ELSE [base_form |-> <<>>, tags |-> <<>>])]

\* FoldLine where a reading is put before the readings already collected.
FoldLinePrepends(state, line) ==
    LET w == ReWordForm(line) IN
    IF w.matched THEN Append(state, CohortFromCaptures(w))
    ELSE IF state = <<>> THEN state
    ELSE LET b == ReBaseForm(line) IN
         IF b.matched
         THEN [state EXCEPT ![Len(state)].readings = <<ReadingFromCaptures(b)>> \o @]
         ELSE state

\* FoldLine where a reading goes to the first cohort instead of the last.
FoldLineFirstCohort(state, line) ==
    LET w == ReWordForm(line) IN
    IF w.matched THEN Append(state, CohortFromCaptures(w))
    ELSE IF state = <<>> THEN state
    ELSE LET b == ReBaseForm(line) IN
         IF b.matched
         THEN [state EXCEPT ![1].readings = Append(@, ReadingFromCaptures(b))]
         ELSE state

\* The closure folded over the lines.
FoldLine(state, line) ==
    LET w == ReWordForm(line) IN
    IF w.matched THEN Append(state, CohortFromCaptures(w))
    ELSE IF state = <<>> THEN state
    ELSE LET b == ReBaseForm(line) IN
         IF b.matched
         THEN [state EXCEPT ![Len(state)].readings =
                               Append(@, ReadingFromCaptures(b))]
         ELSE state

RECURSIVE FoldLines(_, _)
FoldLines(state, ls) ==
    IF ls = <<>> THEN state ELSE FoldLines(FoldLine(state, Head(ls)), Tail(ls))

FromString(text) == FoldLines(<<>>, StrLines(text))

\* ------------------------------------------------------------ to_cg3_string
RECURSIVE TagsToString(_)
TagsToString(tags) ==
    IF tags = <<>> THEN <<>> ELSE <<SP>> \o Head(tags) \o TagsToString(Tail(tags))

\* ReadingToString with an indentation of two spaces.
ReadingToStringTwoSpaces(r) ==
    <<SP, SP, DQ>> \o r.base_form \o <<DQ>> \o TagsToString(r.tags) \o <<LF>>

ReadingToString(r) ==
    <<SP, SP, SP, SP, DQ>> \o r.base_form \o <<DQ>> \o TagsToString(r.tags) \o <<LF>>

RECURSIVE ReadingsToString(_)
ReadingsToString(rs) ==
    IF rs = <<>> THEN <<>> ELSE ReadingToString(Head(rs)) \o ReadingsToString(Tail(rs))

\* Cohort::to_string
CohortToString(c) ==
    <<DQ, LT>> \o c.word_form \o <<GT, DQ>> \o TagsToString(c.tags) \o <<LF>>
        \o ReadingsToString(c.readings)

RECURSIVE ToCg3String(_)
ToCg3String(cs) ==
    IF cs = <<>> THEN <<>> ELSE CohortToString(Head(cs)) \o ToCg3String(Tail(cs))

\* ------------------------------------------------------------ the program
VARIABLES
    input,      \* the text given to from_string
    rest,       \* the lines the fold has not consumed yet
    state,      \* the fold's accumulator: the cohorts built so far
    pc,         \* "fold", "parsed", "serialized" or "done"
    out,        \* to_cg3_string of the parse result
    reparsed    \* from_string of out

vars == <<input, rest, state, pc, out, reparsed>>

\* ------------------------------------------------------------ inputs
\* Bounds of the model.
MaxLines == 3
MaxMid == 3

RECURSIVE Texts(_, _)
\* All texts of at most n characters of the set cs.
Texts(cs, n) ==
    IF n = 0 THEN {<<>>}
    ELSE LET shorter == Texts(cs, n - 1)
         IN  shorter \cup {Append(t, c) : t \in {u \in shorter : Len(u) = n - 1}, c \in cs}

\* The lines of the multi-line inputs: headers, readings and noise.
SampleLines ==
    { <<DQ, LT, LA, GT, DQ>>,                         \* "<a>"
      <<DQ, LT, LB, GT, DQ, SP, LA, SP, LB>>,         \* "<b>" a b
      <<DQ, LT, GT, DQ, TAB, LA>>,                    \* "<>"<TAB>a
      <<SP, SP, SP, SP, DQ, LA, DQ, SP, LB>>,         \* ____"a" b
      <<SP, SP, SP, SP, DQ, LB, DQ>>,                 \* ____"b"
      <<TAB, DQ, DQ, DQ, SP, SP, LA>>,                \* <TAB>""" __a
      <<COLON, SP, LA>>,                              \* : a
      <<>>,                                           \* a blank line
      <<SP, SP, SP, SP, COLON, SP, DQ, LA, DQ>>,      \* ____: "a"
      <<DQ, LA, DQ, SP, LB>>,                         \* "a" b
      <<DQ, LT, LA, GT, DQ, LB>> }                    \* "<a>"b

RECURSIVE LineSeqs(_)
\* All sequences of at most n sample lines.
LineSeqs(n) ==
    IF n = 0 THEN {<<>>}
    ELSE LET shorter == LineSeqs(n - 1)
         IN  shorter \cup {Append(ls, l) : ls \in {u \in shorter : Len(u) = n - 1},
                                           l \in SampleLines}

RECURSIVE JoinLines(_)
\* Every line followed by one newline.
JoinLines(ls) ==
    IF ls = <<>> THEN <<>> ELSE Head(ls) \o <<LF>> \o JoinLines(Tail(ls))

\* The single-line inputs: an optional first header line, then one line made of
\* a prefix, every text of at most MaxMid characters and a suffix, then an ending.
Preambles == { <<>>, <<DQ, LT, GT, DQ, LF>> }

Prefixes == { <<>>, <<DQ, LT>>, <<SP, SP, SP, SP, DQ>> }

MidAlphabet == {DQ, GT, SP, TAB, LA}

Suffixes == { <<>>, <<GT, DQ>>, <<SP, LA>>, <<SP, DQ, LT, LA, GT, DQ>> }

Endings == { <<>>, <<LF>>, <<CR>>, <<CR, LF>>, <<CR, CR, LF>> }

TestLines == {p \o m \o s : p \in Prefixes, m \in Texts(MidAlphabet, MaxMid), s \in Suffixes}

Start(text) ==
    /\ input = text
    /\ rest = StrLines(text)
    /\ state = <<>>
    /\ pc = IF StrLines(text) = <<>> THEN "parsed" ELSE "fold"
    /\ out = <<>>
    /\ reparsed = <<>>

Init == \E ls \in LineSeqs(MaxLines) : Start(JoinLines(ls))

InitLine == \E h \in Preambles, l \in TestLines, e \in Endings : Start(h \o l \o e)

\* ------------------------------------------------------------ actions
\* One iteration of the fold of from_string.
Step ==
    /\ pc = "fold"
    /\ state' = FoldLine(state, Head(rest))
    /\ rest' = Tail(rest)
    /\ pc' = IF Tail(rest) = <<>> THEN "parsed" ELSE "fold"
    /\ UNCHANGED <<input, out, reparsed>>

\* to_cg3_string of the parse result.
Serialize ==
    /\ pc = "parsed"
    /\ out' = ToCg3String(state)
    /\ pc' = "serialized"
    /\ UNCHANGED <<input, rest, state, reparsed>>

\* from_string of the serialized text.
Reparse ==
    /\ pc = "serialized"
    /\ reparsed' = FromString(out)
    /\ pc' = "done"
    /\ UNCHANGED <<input, rest, state, out>>

Next == Step \/ Serialize \/ Reparse

Spec == Init /\ [][Next]_vars

SpecLine == InitLine /\ [][Next]_vars

TypeOK ==
    /\ pc \in {"fold", "parsed", "serialized", "done"}
    /\ Len(rest) <= Len(StrLines(input))

\* ------------------------------------------------------------ vocabulary of the properties
IsHeaderLine(line) == ReWordForm(line).matched

IsReadingLine(line) == ~ReWordForm(line).matched /\ ReBaseForm(line).matched

IsNoiseLine(line) == ~ReWordForm(line).matched /\ ~ReBaseForm(line).matched

\* from_string has returned: the fold has consumed every line of the input.
Parsed == pc = "parsed"

RECURSIVE Concat(_)
Concat(ss) == IF ss = <<>> THEN <<>> ELSE Head(ss) \o Concat(Tail(ss))

RECURSIVE RawLines(_)
\* The text cut after every newline; each piece keeps its terminator.
RawLines(s) ==
    IF s = <<>> THEN <<>>
    ELSE LET i == FirstLF(s) IN
         IF i = 0 THEN <<s>> ELSE <<Take(s, i)>> \o RawLines(Drop(s, i))

\* The text without its i-th line (and that line's terminator).
RemoveLine(text, i) ==
    LET raw == RawLines(text) IN Concat(Take(raw, i - 1) \o Drop(raw, i))

\* The text with line l (and a newline) inserted after the first n lines.
InsertLine(text, n, l) ==
    LET raw == RawLines(text) IN Concat(Take(raw, n) \o <<l \o <<LF>>>> \o Drop(raw, n))

\* The lines of a serialized text, cut at newlines only.
RECURSIVE OutLines(_)
OutLines(s) ==
    IF s = <<>> THEN <<>>
    ELSE LET i == FirstLF(s) IN
         IF i = 0 THEN <<s>> ELSE <<Take(s, i - 1)>> \o OutLines(Drop(s, i))

Range(f) == {f[i] : i \in DOMAIN f}

RECURSIVE JoinSpace(_)
\* The tokens with one space between neighbours.
JoinSpace(ts) ==
    IF ts = <<>> THEN <<>>
    ELSE IF Len(ts) = 1 THEN ts[1]
    ELSE ts[1] \o <<SP>> \o JoinSpace(Tail(ts))

\* ------------------------------------------------------------ C2
\* C2: a reading-pattern line before any cohort header is dropped: the parse
\* result is that of the input without the line, and an input with no cohort
\* header line parses to the empty sequence.
C2_OrphanReadingDropped ==
    Parsed =>
        LET ls == StrLines(input) IN
        /\ \A i \in 1..Len(ls) :
              (/\ ReBaseForm(ls[i]).matched
               /\ \A j \in 1..i : ~IsHeaderLine(ls[j]))
              => state = FromString(RemoveLine(input, i))
        /\ (\A j \in 1..Len(ls) : ~IsHeaderLine(ls[j])) => state = <<>>

\* An orphan reading line was folded, and a later header still made a cohort.
C2_Witness ==
    /\ Parsed
    /\ state # <<>>
    /\ IsReadingLine(StrLines(input)[1])

\* ------------------------------------------------------------ C3
NoiseLines == {l \in SampleLines : IsNoiseLine(l)}

\* C3: a line matching neither pattern, inserted at any position of the input,
\* leaves the parse result unchanged, and is no line of the serialized result.
C3_NoiseHasNoEffect ==
    Parsed =>
        \A l \in NoiseLines :
            /\ \A n \in 0..Len(RawLines(input)) :
                  FromString(InsertLine(input, n, l)) = state
            /\ l \notin Range(OutLines(ToCg3String(state)))

\* Noise stood between a cohort header and its reading.
C3_Witness ==
    /\ Parsed
    /\ Len(StrLines(input)) = 3
    /\ IsHeaderLine(StrLines(input)[1])
    /\ IsNoiseLine(StrLines(input)[2])
    /\ IsReadingLine(StrLines(input)[3])
    /\ Len(state) = 1
    /\ Len(state[1].readings) = 1

\* ------------------------------------------------------------ C4
\* The indices of the header lines of ls.
HeaderIndices(ls) == {i \in 1..Len(ls) : IsHeaderLine(ls[i])}

\* The index of the k-th header line of ls.
NthHeader(ls, k) ==
    CHOOSE i \in HeaderIndices(ls) :
        Cardinality({j \in HeaderIndices(ls) : j <= i}) = k

RECURSIVE ReadingsBetween(_, _, _)
\* The readings of the reading-pattern lines lo..hi of ls, in line order.
ReadingsBetween(ls, lo, hi) ==
    IF lo > hi THEN <<>>
    ELSE (IF IsReadingLine(ls[lo])
          THEN <<ReadingFromCaptures(ReBaseForm(ls[lo]))>>
          ELSE <<>>) \o ReadingsBetween(ls, lo + 1, hi)

\* C4: the k-th cohort holds exactly the readings of the reading-pattern lines
\* between the k-th header line and the next header line, in encounter order.
C4_ReadingsInOrder ==
    Parsed =>
        LET ls == StrLines(input)
            n  == Cardinality(HeaderIndices(ls))
        IN  /\ Len(state) = n
            /\ \A k \in 1..n :
                  LET h    == NthHeader(ls, k)
                      next == IF k < n THEN NthHeader(ls, k + 1) ELSE Len(ls) + 1
                  IN  state[k].readings = ReadingsBetween(ls, h + 1, next - 1)

\* One cohort collected two different readings.
C4_Witness ==
    /\ Parsed
    /\ \E k \in 1..Len(state) :
          /\ Len(state[k].readings) = 2
          /\ state[k].readings[1] # state[k].readings[2]

\* ------------------------------------------------------------ C7
\* s is a prefix of t.
IsPrefix(s, t) == Len(s) <= Len(t) /\ Take(t, Len(s)) = s

\* What one step may do to the cohorts built so far.
C7_StepFrame ==
    /\ Len(state') \in {Len(state), Len(state) + 1}
    /\ Len(state') = Len(state) + 1 <=> (pc = "fold" /\ IsHeaderLine(Head(rest)))
    /\ \A k \in 1..Len(state) :
          /\ state'[k].word_form = state[k].word_form
          /\ state'[k].tags = state[k].tags
          /\ IsPrefix(state[k].readings, state'[k].readings)
          /\ (k < Len(state) \/ Len(state') > Len(state)) => state'[k] = state[k]

\* C7: a cohort is appended when its header line is folded and afterwards only
\* gains readings while it is the last cohort; a cohort that is no longer the
\* last never changes, and no cohort is removed or reordered.
C7_CohortsOnlyGrowAtTheEnd == [][C7_StepFrame]_vars

\* Two cohorts exist and the next line is a reading.
C7_Witness ==
    /\ pc = "fold"
    /\ Len(state) = 2
    /\ IsReadingLine(Head(rest))

\* ------------------------------------------------------------ what the last line made
LastLine == LET ls == StrLines(input) IN ls[Len(ls)]

\* The last line of the input was a cohort header: it made the last cohort.
MadeCohort == Parsed /\ StrLines(input) # <<>> /\ IsHeaderLine(LastLine)

\* The last line of the input was a reading line and a cohort took the reading.
MadeReading == Parsed /\ StrLines(input) # <<>> /\ IsReadingLine(LastLine) /\ state # <<>>

LastCohort == state[Len(state)]

LastReading == LastCohort.readings[Len(LastCohort.readings)]

\* The header text up to and including the closing quote of word form w.
HeaderOf(w) == <<DQ, LT>> \o w \o <<GT, DQ>>

\* line is n >= 1 whitespace characters, then the quoted base form b, then r.
IsReadingOf(line, n, b, r) ==
    /\ n >= 1
    /\ \A k \in 1..n : IsSpace(line[k])
    /\ line = Take(line, n) \o <<DQ>> \o b \o <<DQ>> \o r

\* The text after the closing quote of the last line, which made item (a cohort
\* or a reading) with quoted field f.
AfterHeader(w) == Drop(LastLine, Len(w) + 4)

AfterReading(b) ==
    LET n == CHOOSE k \in 1..Len(LastLine) :
                 IsReadingOf(LastLine, k, b, Drop(LastLine, k + Len(b) + 2))
    IN  Drop(LastLine, n + Len(b) + 2)

NumSpaces(s) == Cardinality({i \in 1..Len(s) : s[i] = SP})

\* ------------------------------------------------------------ C5
\* r is nothing, or exactly one whitespace character.
NoTagText(r) == r = <<>> \/ (Len(r) = 1 /\ IsSpace(r[1]))

\* C5: a header or reading line that ends at the closing quote, or one
\* whitespace character after it, yields no tags; no tag sequence is ever the
\* sequence of one empty token.
C5_EmptyTags ==
    /\ MadeCohort =>
          /\ HasAt(LastLine, 1, HeaderOf(LastCohort.word_form))
          /\ NoTagText(AfterHeader(LastCohort.word_form)) => LastCohort.tags = <<>>
          /\ LastCohort.tags # << <<>> >>
    /\ MadeReading =>
          /\ \E n \in 1..Len(LastLine) :
                IsReadingOf(LastLine, n, LastReading.base_form,
                            Drop(LastLine, n + Len(LastReading.base_form) + 2))
          /\ NoTagText(AfterReading(LastReading.base_form)) => LastReading.tags = <<>>
          /\ LastReading.tags # << <<>> >>

\* A header line ended with one whitespace character after the closing quote.
C5_Witness ==
    /\ MadeCohort
    /\ Len(AfterHeader(LastCohort.word_form)) = 1
    /\ LastCohort.tags = <<>>

\* ------------------------------------------------------------ C9
\* What C9 says of the tags made from the text r after the closing quote.
C9_TagsAfterRun(tags, r) ==
    TrimStart(r) # <<>> =>
        /\ JoinSpace(tags) = TrimStart(r)
        /\ tags # <<>>
        /\ tags[1] # <<>>
        /\ ~IsSpace(tags[1][1])

\* C9 as stated: the tag string starts after the whole whitespace run that
\* follows the closing quote, so the first tag is the first non-whitespace text.
C9_Original ==
    /\ MadeCohort => C9_TagsAfterRun(LastCohort.tags, AfterHeader(LastCohort.word_form))
    /\ MadeReading => C9_TagsAfterRun(LastReading.tags, AfterReading(LastReading.base_form))

\* What the code makes of the text r after the closing quote: r is empty or
\* starts with whitespace, and the tags are the pieces of everything after that
\* one character, cut at every single space.
C9_TagsAfterOneChar(tags, r) ==
    /\ r # <<>> => IsSpace(r[1])
    /\ JoinSpace(tags) = Drop(r, 1)
    /\ \A i \in 1..Len(tags) : SP \notin Range(tags[i])
    /\ Len(tags) = IF Len(r) <= 1 THEN 0 ELSE NumSpaces(Drop(r, 1)) + 1

\* C9 amended: the tag string is everything after the first single whitespace
\* character that follows the closing quote; the rest of a longer whitespace
\* run stays in the tag string.
C9_TagStringAfterOneWhitespace ==
    /\ MadeCohort => C9_TagsAfterOneChar(LastCohort.tags, AfterHeader(LastCohort.word_form))
    /\ MadeReading => C9_TagsAfterOneChar(LastReading.tags, AfterReading(LastReading.base_form))

\* A header line had two spaces between the closing quote and its tag.
C9_Witness ==
    /\ MadeCohort
    /\ Len(LastCohort.tags) = 2
    /\ LastCohort.tags[1] = <<>>
    /\ LastCohort.tags[2] # <<>>

\* ------------------------------------------------------------ C8
\* C8 as stated: no word form contains the closing sequence >".
C8_Original ==
    Parsed => \A k \in 1..Len(state) : ~Contains(state[k].word_form, <<GT, DQ>>)

\* C8 amended: the word form is the text up to the first >" of the header line
\* that is followed by a whitespace character or by the end of the line; it may
\* contain >" but never >" followed by whitespace.
C8_WordFormEndsAtFirstBoundary ==
    MadeCohort =>
        LET w == LastCohort.word_form IN
        /\ HasAt(LastLine, 1, HeaderOf(w))
        /\ AfterHeader(w) # <<>> => IsSpace(AfterHeader(w)[1])
        /\ \A i \in 3..(Len(w) + 2) :
              HasAt(LastLine, i, <<GT, DQ>>) => ~IsSpace(LastLine[i + 2])

\* A word form that contains >".
C8_Witness ==
    /\ MadeCohort
    /\ Contains(LastCohort.word_form, <<GT, DQ>>)

\* ------------------------------------------------------------ C6
\* b has no quote that is followed by whitespace.
NoQuoteBoundary(b) ==
    \A i \in 1..(Len(b) - 1) : ~(b[i] = DQ /\ IsSpace(b[i + 1]))

\* t has a quoted sub-token "<...>".
HasQuotedSubToken(t) ==
    \E i, j \in 1..Len(t) :
        /\ i + 2 <= j
        /\ HasAt(t, i, <<DQ, LT>>)
        /\ HasAt(t, j, <<GT, DQ>>)

\* C6: in a reading line of leading whitespace, a quoted field "B" (B without a
\* quote followed by whitespace), one whitespace character and a tag string T
\* with a "<...>" sub-token, base_form is B and the tags are the pieces of T.
C6_NestedQuote ==
    MadeReading =>
        \A n \in 1..Len(LastLine), m \in 0..Len(LastLine) :
            n + m + 2 <= Len(LastLine) =>
            LET b == SubSeq(LastLine, n + 2, n + 1 + m)
                r == Drop(LastLine, n + m + 2)
            IN  (/\ IsReadingOf(LastLine, n, b, r)
                 /\ NoQuoteBoundary(b)
                 /\ r # <<>>
                 /\ IsSpace(r[1])
                 /\ HasQuotedSubToken(Drop(r, 1)))
                => /\ LastReading.base_form = b
                   /\ JoinSpace(LastReading.tags) = Drop(r, 1)
                   /\ \A i \in 1..Len(LastReading.tags) : SP \notin Range(LastReading.tags[i])

\* A reading with a non-empty base form took a "<a>" tag.
C6_Witness ==
    /\ MadeReading
    /\ LastReading.base_form # <<>>
    /\ <<DQ, LT, LA, GT, DQ>> \in Range(LastReading.tags)

\* ------------------------------------------------------------ C1
\* r is zero or more tags, each after one space; a tag is a non-empty text
\* without a space.
IsTags(r) ==
    r = <<>> \/ (/\ r[1] = SP
                 /\ r[Len(r)] # SP
                 /\ \A i \in 1..(Len(r) - 1) : ~(r[i] = SP /\ r[i + 1] = SP))

\* f has the closing delimiter close followed by a whitespace character other
\* than the space.
ClosesBeforeOddSpace(f, close) ==
    \E i \in 1..Len(f) :
        /\ HasAt(f, i, close)
        /\ i + Len(close) <= Len(f)
        /\ IsSpace(f[i + Len(close)])
        /\ f[i + Len(close)] # SP

\* l is open, a field, close and tags, where ok(field, tags) holds.
HasForm(l, open, close, ok(_, _)) ==
    /\ HasAt(l, 1, open)
    /\ \E j \in (Len(open) + 1)..Len(l) :
          /\ HasAt(l, j, close)
          /\ ok(SubSeq(l, Len(open) + 1, j - 1), Drop(l, j + Len(close) - 1))

Indent == <<SP, SP, SP, SP, DQ>>

\* A cohort header "<w>" followed by zero or more single-space-prefixed tags.
IsCanonicalHeader(l) == HasForm(l, <<DQ, LT>>, <<GT, DQ>>, LAMBDA f, r : IsTags(r))

\* Four spaces, a quoted base form, zero or more single-space-prefixed tags.
IsCanonicalReading(l) == HasForm(l, Indent, <<DQ>>, LAMBDA f, r : IsTags(r))

\* The same, with a field in which the closing delimiter is never followed by a
\* whitespace character other than the space.
IsStrictHeader(l) ==
    HasForm(l, <<DQ, LT>>, <<GT, DQ>>,
            LAMBDA f, r : IsTags(r) /\ ~ClosesBeforeOddSpace(f, <<GT, DQ>>))

IsStrictReading(l) ==
    HasForm(l, Indent, <<DQ>>,
            LAMBDA f, r : IsTags(r) /\ ~ClosesBeforeOddSpace(f, <<DQ>>))

\* Every line of text is a header or a reading line, the first a header, and
\* every line ends with one newline (and not with a carriage return before it).
IsCanonicalText(text, header(_), reading(_)) ==
    LET ls == OutLines(text) IN
    /\ text # <<>> => text[Len(text)] = LF
    /\ \A i \in 1..Len(ls) :
          /\ header(ls[i]) \/ reading(ls[i])
          /\ ls[i] = <<>> \/ ls[i][Len(ls[i])] # CR
    /\ ls # <<>> => header(ls[1])

Serialized == pc = "serialized"

C10_ReparseIsIdentity == pc = "done" => reparsed = state

====
